---- MODULE Spec2Model ----
(***************************************************************************)
(* Model of calculadora_limites (src/main.py): the classifier              *)
(* classify_limit, the seven resolvers, and solve_limit, which parses a    *)
(* query, classifies it, dispatches on the tag and assembles the report.   *)
(*                                                                         *)
(* The symbolic engine (SymPy) is external.  An expression is represented  *)
(* by the answers the engine gives about it at the query's point: the      *)
(* record `cls` holds what the classifier asks for, the record `res` what  *)
(* the resolvers ask for.  Every engine call either returns a value or     *)
(* raises an exception.  The same expression always gets the same answers. *)
(***************************************************************************)
EXTENDS Naturals, Sequences, FiniteSets, TLC

(***************************************************************************)
(* Engine values and exceptions                                            *)
(***************************************************************************)

\* Python's None, and the marker of an answer that no decision of the
\* program depends on.
None == "None"
NA == "-"

\* Exceptions the engine may raise, and str(e) of each.
Excs == {"E1", "E2"}

\* The exception sympy.limit raises for a direction that is neither a string
\* nor a Symbol.
TypeErrorDir == "TypeError"

\* The exception sympy.limit raises for dir "+-" when the sides differ.
ValueErrorLim == "ValueError"

\* The exception sympy.limit raises for a direction string other than "+",
\* "-" and "+-".
ValueErrorDir == "ValueErrorDir"

AllExcs == Excs \cup {TypeErrorDir, ValueErrorLim, ValueErrorDir}

StrOf(e) ==
    CASE e = "E1" -> "msg1"
      [] e = "E2" -> "msg2"
      [] e = TypeErrorDir -> "direction must be of type basestring or Symbol, not <class 'NoneType'>"
      [] e = ValueErrorLim -> "The limit does not exist since left hand limit != right hand limit"
      [] e = ValueErrorDir -> "direction must be one of '+', '-' or '+-'"
      [] OTHER -> "?"

Raised(o) == o \in AllExcs

\* sympy's is_finite / is_real / has(oo) or has(-oo) on the abstract values.
\* "I" is a finite non-real number, "zoo" complex infinity, "nan" has
\* is_finite = is_real = None (falsy).
is_finite(v) == v \in {"0", "1", "2", "E", "exp(2)", "I", "exp(I)"}

is_real(v) == v \in {"0", "1", "2", "E", "exp(2)"}

has_oo(v) == v \in {"oo", "-oo"}

\* sympy.exp applied to a limit value.
exp(v) ==
    CASE v = "0" -> "1"
      [] v = "1" -> "E"
      [] v = "2" -> "exp(2)"
      [] v = "I" -> "exp(I)"
      [] OTHER -> "exp(?)"

(***************************************************************************)
(* classify_limit                                                          *)
(***************************************************************************)

LimitClassification(tipo, valor, obs, num, den) ==
    [tipo |-> tipo, valor_substituicao |-> valor, observacoes |-> obs,
     numerador |-> num, denominador |-> den]

\* An except clause that drops the exception message from the note.
classify_except_noMessage(e) ==
    LimitClassification("ERRO", None, "Erro na classificacao", None, None)

\* The except clause of classify_limit.
classify_except(e) ==
    LimitClassification("ERRO", None, "Erro na classificacao: " \o StrOf(e), None, None)

\* The any(...) tests over the evaluated top-level terms and factors.
has_pos_inf(args) == \E i \in 1..Len(args) : args[i] = "oo"

has_neg_inf(args) == \E i \in 1..Len(args) : args[i] = "-oo"

has_zero(args) == \E i \in 1..Len(args) : args[i] = "0"

has_inf(args) == \E i \in 1..Len(args) : has_oo(args[i])

\* The checks that follow the fraction checks: Add, Mul, Pow, then GENERICO.
\* c.args holds the evaluated terms / factors / <<base, exponent>>.
classify_structure(c) ==
    IF c.kind = "Add" /\ Raised(c.argsExc) THEN classify_except(c.argsExc)
    ELSE IF c.kind = "Add" /\ has_pos_inf(c.args) /\ has_neg_inf(c.args)
    THEN LimitClassification("INFINITO_MENOS_INFINITO", None, "Indeterminacao oo - oo", None, None)
    ELSE IF c.kind = "Mul" /\ Raised(c.argsExc) THEN classify_except(c.argsExc)
    ELSE IF c.kind = "Mul" /\ has_zero(c.args) /\ has_inf(c.args)
    THEN LimitClassification("ZERO_VEZES_INFINITO", None, "Indeterminacao 0 * oo", None, None)
    ELSE IF c.kind = "Pow" /\ Raised(c.argsExc) THEN classify_except(c.argsExc)
    ELSE IF c.kind = "Pow" /\ c.args[1] = "1" /\ has_oo(c.args[2])
    THEN LimitClassification("UM_POTENCIA_INFINITO", None, "Indeterminacao 1^oo", None, None)
    ELSE IF c.kind = "Pow" /\ c.args[1] = "0" /\ c.args[2] = "0"
    THEN LimitClassification("ZERO_POTENCIA_ZERO", None, "Indeterminacao 0^0", None, None)
    ELSE IF c.kind = "Pow" /\ has_oo(c.args[1]) /\ c.args[2] = "0"
    THEN LimitClassification("INFINITO_POTENCIA_ZERO", None, "Indeterminacao oo^0", None, None)
    ELSE LimitClassification("GENERICO", c.sub, "Resultado da substituicao: " \o c.sub, None, None)

\* The fraction checks with the finite check moved behind them.
classify_checks_finiteLast(c) ==
    IF c.den = "0" /\ c.num # "0" /\ is_finite(c.num)
    THEN LimitClassification("NUMERO_SOBRE_ZERO", None, "Numerador = " \o c.num \o ", Denominador = 0", c.num, c.den)
    ELSE IF c.num = "0" /\ c.den = "0"
    THEN LimitClassification("ZERO_SOBRE_ZERO", None, "Indeterminacao 0/0", c.num, c.den)
    ELSE IF has_oo(c.num) /\ has_oo(c.den)
    THEN LimitClassification("INFINITO_SOBRE_INFINITO", None, "Indeterminacao oo/oo", c.num, c.den)
    ELSE IF is_finite(c.sub) /\ is_real(c.sub)
    THEN LimitClassification("FINITO", c.sub, "Substituicao direta resulta em " \o c.sub, c.num, c.den)
    ELSE classify_structure(c)

\* The checks on the substituted value and on numerator / denominator.
classify_checks(c) ==
    IF is_finite(c.sub) /\ is_real(c.sub)
    THEN LimitClassification("FINITO", c.sub, "Substituicao direta resulta em " \o c.sub, c.num, c.den)
    ELSE IF c.den = "0" /\ c.num # "0" /\ is_finite(c.num)
    THEN LimitClassification("NUMERO_SOBRE_ZERO", None, "Numerador = " \o c.num \o ", Denominador = 0", c.num, c.den)
    ELSE IF c.num = "0" /\ c.den = "0"
    THEN LimitClassification("ZERO_SOBRE_ZERO", None, "Indeterminacao 0/0", c.num, c.den)
    ELSE IF has_oo(c.num) /\ has_oo(c.den)
    THEN LimitClassification("INFINITO_SOBRE_INFINITO", None, "Indeterminacao oo/oo", c.num, c.den)
    ELSE classify_structure(c)

\* classify_limit: the substitution, then fraction(expr) and the evaluation
\* of numerator and denominator, all before the first check; any exception
\* gives the ERRO classification.
classify_limit(c) ==
    IF Raised(c.sub) THEN classify_except(c.sub)
    ELSE IF Raised(c.fractionExc) THEN classify_except(c.fractionExc)
    ELSE IF Raised(c.numdenExc) THEN classify_except(c.numdenExc)
    ELSE classify_checks(c)

(***************************************************************************)
(* The limit engine (sympy.limit)                                          *)
(***************************************************************************)

\* Direction tokens sympy.limit accepts; "+-" is the two-sided limit.
EngineDirs == {"+", "-", "+-"}

\* sympy.limit overrides the direction at an infinite point before it
\* validates it: None is a TypeError, any other unknown token a ValueError.
EngineDir(point, dir) ==
    IF point = "oo" THEN "-" ELSE IF point = "-oo" THEN "+" ELSE dir

\* limit(form, x, point, dir).  For the original expression ("expr") the
\* answer is the one-sided limit r.limL or r.limR; a derived expression has
\* the single answer r[form].
limit(r, form, point, dir) ==
    LET d == EngineDir(point, dir)
    IN  IF d = None THEN TypeErrorDir
        ELSE IF d \notin EngineDirs THEN ValueErrorDir
        ELSE IF form # "expr" THEN r[form]
        ELSE IF d = "+" THEN r.limR
        ELSE IF d = "-" THEN r.limL
        ELSE IF Raised(r.limL) THEN r.limL
        ELSE IF Raised(r.limR) THEN r.limR
        ELSE IF r.limL = r.limR THEN r.limL
        ELSE ValueErrorLim

\* One call of the engine's limit, as the resolver passes it; an omitted
\* direction is the default "+".
Call(form, dir) == [form |-> form, dir |-> dir]

DefaultDir == "+"

(***************************************************************************)
(* Resolvers.  A resolver returns (resultado, explicacao) or raises.       *)
(* `via` names the attempt that produced the result, `at` the step that    *)
(* raised, `calls` the engine limit calls made, in order.                  *)
(***************************************************************************)

Ret(resultado, explicacao, calls, via) ==
    [exc |-> "none", at |-> "none", resultado |-> resultado,
     explicacao |-> explicacao, calls |-> calls, via |-> via]

Raise(e, at, calls) ==
    [exc |-> e, at |-> at, resultado |-> NA,
     explicacao |-> <<>>, calls |-> calls, via |-> "none"]

resolver_finito(e, point, classification) ==
    Ret(classification.valor_substituicao,
        <<"TIPO: Valor Finito", "RESULTADO">>, <<>>, "substituicao")

\* The number-over-zero resolver without the comparison of the two sides.
resolver_numero_sobre_zero_noCompare(e, point, classification, direction) ==
    LET lim_esquerda == limit(e.res, "expr", point, "-")
        lim_direita == limit(e.res, "expr", point, "+")
        c1 == <<Call("expr", "-")>>
        c2 == <<Call("expr", "-"), Call("expr", "+")>>
        t == <<"TIPO: Numero sobre Zero", "Limites laterais">>
    IN  IF Raised(lim_esquerda) THEN Raise(lim_esquerda, "lateral", c1)
        ELSE IF Raised(lim_direita) THEN Raise(lim_direita, "lateral", c2)
        ELSE IF direction = "-"
        THEN Ret(lim_esquerda, Append(t, "RESULTADO"), c2, "laterais")
        ELSE Ret(lim_direita, Append(t, "RESULTADO"), c2, "laterais")

resolver_numero_sobre_zero(e, point, classification, direction) ==
    LET lim_esquerda == limit(e.res, "expr", point, "-")
        lim_direita == limit(e.res, "expr", point, "+")
        c1 == <<Call("expr", "-")>>
        c2 == <<Call("expr", "-"), Call("expr", "+")>>
        t == <<"TIPO: Numero sobre Zero", "Limites laterais">>
    IN  IF Raised(lim_esquerda) THEN Raise(lim_esquerda, "lateral", c1)
        ELSE IF Raised(lim_direita) THEN Raise(lim_direita, "lateral", c2)
        ELSE IF direction = "both"
        THEN IF lim_esquerda = lim_direita
             THEN Ret(lim_esquerda, Append(t, "RESULTADO"), c2, "laterais")
             ELSE Ret(None, Append(t, "RESULTADO: O limite nao existe"), c2, "laterais")
        ELSE IF direction = "+"
        THEN Ret(lim_direita, Append(t, "RESULTADO"), c2, "laterais")
        ELSE Ret(lim_esquerda, Append(t, "RESULTADO"), c2, "laterais")

\* The terminal fallback shared by the resolvers: limit(expr, x, point).
direct_fallback(e, point, explicacao, calls) ==
    LET resultado == limit(e.res, "expr", point, DefaultDir)
        cs == Append(calls, Call("expr", DefaultDir))
    IN  IF Raised(resultado) THEN Raise(resultado, "direct", cs)
        ELSE Ret(resultado, Append(explicacao, "RESULTADO (calculo direto)"), cs, "direto")

\* The L'Hopital attempt of the 0/0 and oo/oo resolvers, followed by the
\* direct fallback when it raises.
lhopital_then_direct(e, point, explicacao) ==
    LET r == e.res
        t == Append(explicacao, "REGRA DE L'HOPITAL")
        c == <<Call("lhop", DefaultDir)>>
    IN  IF Raised(r.diff)
        THEN direct_fallback(e, point, Append(t, "Erro ao aplicar L'Hopital"), <<>>)
        ELSE IF Raised(r.lhop)
        THEN direct_fallback(e, point, t \o <<"Derivadas", "Erro ao aplicar L'Hopital">>, c)
        ELSE Ret(limit(r, "lhop", point, DefaultDir), t \o <<"Derivadas", "RESULTADO">>, c, "lhopital")

resolver_zero_sobre_zero(e, point) ==
    LET r == e.res
        t0 == <<"TIPO: 0/0">>
        changed == r.factorOut = "changed"
        t1 == IF changed THEN Append(t0, "FATORACAO") ELSE t0
        substituted == changed /\ ~Raised(r.simpSub)
                       /\ is_finite(r.simpSub) /\ is_real(r.simpSub)
        t2 == IF point = "0" THEN Append(t1, "Verificando limites fundamentais") ELSE t1
    IN  IF Raised(e.cls.fractionExc) THEN Raise(e.cls.fractionExc, "fraction", <<>>)
        ELSE IF substituted
        THEN Ret(r.simpSub, t1 \o <<"Agora podemos substituir", "RESULTADO">>, <<>>, "fatoracao")
        ELSE IF point = "0" /\ Raised(r.expandExc) THEN Raise(r.expandExc, "expand", <<>>)
        ELSE lhopital_then_direct(e, point, t2)

\* The oo/oo resolver with the dominant-term method tried at every point.
resolver_infinito_sobre_infinito_anyPoint(e, point) ==
    LET r == e.res
        t1 == <<"TIPO: oo/oo", "DIVIDINDO PELA MAIOR POTENCIA">>
        dominant == r.degOut = "pos" /\ ~Raised(r.dom)
    IN  IF Raised(e.cls.fractionExc) THEN Raise(e.cls.fractionExc, "fraction", <<>>)
        ELSE IF dominant
        THEN Ret(limit(r, "dom", point, DefaultDir), t1 \o <<"Graus", "Nova expressao", "RESULTADO">>,
                 <<Call("dom", DefaultDir)>>, "dominante")
        ELSE LET o == lhopital_then_direct(e, point, t1)
                 pre == IF r.degOut = "pos" THEN <<Call("dom", DefaultDir)>> ELSE <<>>
             IN  [o EXCEPT !.calls = pre \o @]

resolver_infinito_sobre_infinito(e, point) ==
    LET r == e.res
        t0 == <<"TIPO: oo/oo">>
        atInf == point \in {"oo", "-oo"}
        t1 == IF atInf THEN Append(t0, "DIVIDINDO PELA MAIOR POTENCIA") ELSE t0
        dominant == atInf /\ r.degOut = "pos" /\ ~Raised(r.dom)
    IN  IF Raised(e.cls.fractionExc) THEN Raise(e.cls.fractionExc, "fraction", <<>>)
        ELSE IF dominant
        THEN Ret(limit(r, "dom", point, DefaultDir), t1 \o <<"Graus", "Nova expressao", "RESULTADO">>,
                 <<Call("dom", DefaultDir)>>, "dominante")
        ELSE LET o == lhopital_then_direct(e, point, t1)
                 pre == IF atInf /\ r.degOut = "pos" THEN <<Call("dom", DefaultDir)>> ELSE <<>>
             IN  [o EXCEPT !.calls = pre \o @]

resolver_infinito_menos_infinito(e, point) ==
    LET r == e.res
        t0 == <<"TIPO: oo - oo">>
        t1 == IF r.hasSqrt THEN Append(t0, "RACIONALIZACAO") ELSE t0
        changed == r.togOut = "changed"
    IN  IF changed /\ ~Raised(r.tog)
        THEN Ret(limit(r, "tog", point, DefaultDir),
                 t1 \o <<"UNIFICANDO EM FRACAO UNICA", "RESULTADO">>,
                 <<Call("tog", DefaultDir)>>, "fracao")
        ELSE direct_fallback(e, point,
                 IF changed THEN Append(t1, "UNIFICANDO EM FRACAO UNICA") ELSE t1,
                 IF changed THEN <<Call("tog", DefaultDir)>> ELSE <<>>)

resolver_zero_vezes_infinito(e, point) ==
    LET resultado == limit(e.res, "expr", point, DefaultDir)
        cs == <<Call("expr", DefaultDir)>>
    IN  IF Raised(resultado) THEN Raise(resultado, "direct", cs)
        ELSE Ret(resultado, <<"TIPO: 0 * oo", "TRANSFORMACAO EM FRACAO", "RESULTADO">>, cs, "direto")

\* The logarithm method of the exponential resolver, then the fallback.
logaritmo_then_direct(e, point, explicacao, calls) ==
    LET r == e.res
        t == Append(explicacao, "METODO DO LOGARITMO")
        cs == Append(calls, Call("ln", DefaultDir))
    IN  IF Raised(r.ln) THEN direct_fallback(e, point, t, cs)
        ELSE IF is_finite(r.ln)
        THEN Ret(exp(r.ln), t \o <<"ln(y)", "lim ln(y)", "RESULTADO">>, cs, "logaritmo")
        ELSE direct_fallback(e, point, t \o <<"ln(y)", "lim ln(y)">>, cs)

resolver_exponencial_indeterminado(e, point, classification) ==
    LET r == e.res
        t0 == <<"TIPO: " \o classification.tipo>>
        shape == e.cls.kind = "Pow" /\ r.onePlus
        t1 == IF shape THEN Append(t0, "LIMITE FUNDAMENTAL EXPONENCIAL") ELSE t0
        c == <<Call("prod", DefaultDir)>>
    IN  IF ~shape THEN logaritmo_then_direct(e, point, t0, <<>>)
        ELSE IF Raised(r.prod) THEN Raise(r.prod, "produto", c)
        ELSE IF is_finite(r.prod)
        THEN Ret(exp(r.prod), t1 \o <<"u * v", "lim (u * v)", "RESULTADO">>, c, "fundamental")
        ELSE logaritmo_then_direct(e, point, t1 \o <<"u * v", "lim (u * v)">>, c)

\* The else branch of solve_limit's dispatch: the limit engine on the
\* original expression, with None for the direction "both".
direct_dispatch(e, point, direction) ==
    LET dir == IF direction # "both" THEN direction ELSE None
        resultado == limit(e.res, "expr", point, dir)
        cs == <<Call("expr", dir)>>
    IN  IF Raised(resultado) THEN Raise(resultado, "direct", cs)
        ELSE Ret(resultado, <<"CALCULO DIRETO", "RESULTADO">>, cs, "direto")

(***************************************************************************)
(* solve_limit: parsing and normalisation, dispatch, report                *)
(***************************************************************************)

\* str.lower() on the tokens the model feeds in.
Lower(s) ==
    CASE s = "Direita" -> "direita"
      [] s = "INF" -> "inf"
      [] OTHER -> s

\* Lines 520-525: the limit point from its text; "(" does not parse.
parse_point(point_str) ==
    IF Lower(point_str) \in {"inf", "+inf", "infinity", "+infinity"} THEN "oo"
    ELSE IF Lower(point_str) \in {"-inf", "-infinity"} THEN "-oo"
    ELSE IF point_str = "(" THEN "E2"
    ELSE point_str

\* Lines 527-535: the normalised direction and its symbol.
normalize_direction(direction) ==
    IF Lower(direction) \in {"+", "direita", "right"} THEN [direction |-> "+", dir_symbol |-> "+"]
    ELSE IF Lower(direction) \in {"-", "esquerda", "left"} THEN [direction |-> "-", dir_symbol |-> "-"]
    ELSE [direction |-> "both", dir_symbol |-> ""]

\* The dispatch with ZERO_POTENCIA_ZERO left out of the power tags.
Resolver_noZeroPow(tipo) ==
    CASE tipo = "FINITO" -> "resolver_finito"
      [] tipo = "NUMERO_SOBRE_ZERO" -> "resolver_numero_sobre_zero"
      [] tipo = "ZERO_SOBRE_ZERO" -> "resolver_zero_sobre_zero"
      [] tipo = "INFINITO_SOBRE_INFINITO" -> "resolver_infinito_sobre_infinito"
      [] tipo = "INFINITO_MENOS_INFINITO" -> "resolver_infinito_menos_infinito"
      [] tipo = "ZERO_VEZES_INFINITO" -> "resolver_zero_vezes_infinito"
      [] tipo \in {"UM_POTENCIA_INFINITO", "INFINITO_POTENCIA_ZERO"}
            -> "resolver_exponencial_indeterminado"
      [] OTHER -> "limit"

\* The if / elif chain of solve_limit: the resolver each tag selects.
Resolver(tipo) ==
    CASE tipo = "FINITO" -> "resolver_finito"
      [] tipo = "NUMERO_SOBRE_ZERO" -> "resolver_numero_sobre_zero"
      [] tipo = "ZERO_SOBRE_ZERO" -> "resolver_zero_sobre_zero"
      [] tipo = "INFINITO_SOBRE_INFINITO" -> "resolver_infinito_sobre_infinito"
      [] tipo = "INFINITO_MENOS_INFINITO" -> "resolver_infinito_menos_infinito"
      [] tipo = "ZERO_VEZES_INFINITO" -> "resolver_zero_vezes_infinito"
      [] tipo \in {"UM_POTENCIA_INFINITO", "ZERO_POTENCIA_ZERO", "INFINITO_POTENCIA_ZERO"}
            -> "resolver_exponencial_indeterminado"
      [] OTHER -> "limit"

\* The report solve_limit returns.
NormalReport(point, dir_symbol, classification, explicacao) ==
    [kind |-> "normal", limite |-> <<point, dir_symbol>>,
     tipo |-> classification.tipo, observacoes |-> classification.observacoes,
     explicacao |-> explicacao, msg |-> NA]

\* An outermost except clause that lets the engine's TypeError through.
solve_limit_except_narrow(e) ==
    [kind |-> IF e = TypeErrorDir THEN "uncaught" ELSE "erro",
     limite |-> <<>>, tipo |-> NA, observacoes |-> NA,
     explicacao |-> <<>>, msg |-> StrOf(e)]

\* The outermost except clause of solve_limit.
solve_limit_except(e) ==
    [kind |-> "erro", limite |-> <<>>, tipo |-> NA, observacoes |-> NA,
     explicacao |-> <<>>, msg |-> StrOf(e)]

NoReport ==
    [kind |-> "none", limite |-> <<>>, tipo |-> NA, observacoes |-> NA,
     explicacao |-> <<>>, msg |-> NA]

\* What solve_limit returns once its resolver returned or raised.
report_of(point, dir_symbol, classification, o) ==
    IF Raised(o.exc) THEN solve_limit_except(o.exc)
    ELSE NormalReport(point, dir_symbol, classification, o.explicacao)

(***************************************************************************)
(* Inputs: the expressions, points and directions a query may carry        *)
(***************************************************************************)

\* Number of top-level terms / factors of an Add / Mul expression.
NArgs == 2

SubVals == {"1", "2", "I", "zoo"}
NumVals == {"0", "1", "oo"}
DenVals == {"0", "oo"}
TermVals == {"1", "oo", "-oo"}
FactorVals == {"0", "1", "oo"}
BaseVals == {"0", "1", "oo"}
ExpoVals == {"0", "oo"}

Struct(kind, args, argsExc) == [kind |-> kind, args |-> args, argsExc |-> argsExc]

\* One structure per kind whose own predicate holds, to go with the tags
\* that are decided before the structure is looked at.
StructReps ==
    { Struct("Other", <<>>, "none"),
      Struct("Add", [i \in 1..NArgs |-> IF i = 1 THEN "oo" ELSE "-oo"], "none"),
      Struct("Mul", [i \in 1..NArgs |-> IF i = 1 THEN "0" ELSE "oo"], "none"),
      Struct("Pow", <<"1", "oo">>, "none") }

StructAll ==
    StructReps
    \cup { Struct("Add", a, "none") : a \in [1..NArgs -> TermVals] }
    \cup { Struct("Mul", a, "none") : a \in [1..NArgs -> FactorVals] }
    \cup { Struct("Pow", <<b, x>>, "none") : b \in BaseVals, x \in ExpoVals }
    \cup { Struct(k, <<>>, "E2") : k \in {"Add", "Mul", "Pow"} }

Cls(sub, fractionExc, numdenExc, num, den, st) ==
    [sub |-> sub, fractionExc |-> fractionExc, numdenExc |-> numdenExc,
     num |-> num, den |-> den,
     kind |-> st.kind, args |-> st.args, argsExc |-> st.argsExc]

NoCls == Cls(NA, "none", "none", NA, NA, Struct("Other", <<>>, "none"))

FractionTags ==
    {"FINITO", "NUMERO_SOBRE_ZERO", "ZERO_SOBRE_ZERO", "INFINITO_SOBRE_INFINITO"}

\* What the engine may answer to the classifier.
ClsSet ==
    { Cls("E1", "none", "none", NA, NA, Struct("Other", <<>>, "none")) }
    \cup { Cls(s, "E2", "none", NA, NA, Struct("Other", <<>>, "none")) : s \in {"1", "zoo"} }
    \cup { Cls(s, "none", "E1", NA, NA, Struct("Other", <<>>, "none")) : s \in {"1", "zoo"} }
    \cup { c \in { Cls(s, "none", "none", n, d, st) :
                     s \in SubVals, n \in NumVals, d \in DenVals, st \in StructAll } :
             \/ Struct(c.kind, c.args, c.argsExc) \in StructReps
             \/ classify_limit(c).tipo \notin FractionTags }

NoRes ==
    [limL |-> NA, limR |-> NA, factorOut |-> NA, simpSub |-> NA, expandExc |-> "none",
     diff |-> NA, lhop |-> NA, degOut |-> NA, dom |-> NA, hasSqrt |-> FALSE,
     togOut |-> NA, tog |-> NA, onePlus |-> FALSE, prod |-> NA, ln |-> NA]

\* <<left limit, right limit>> of the original expression at the point.
LimPairs == { <<"1", "1">>, <<"-oo", "oo">>, <<"E1", "1">>, <<"1", "E2">> }

WithDirect(b) == { [b EXCEPT !.limL = p[1], !.limR = p[2]] : p \in LimPairs }

WithLhop(b) ==
    { [b EXCEPT !.diff = "ok", !.lhop = v] : v \in {"1", "oo"} }
    \cup WithDirect([b EXCEPT !.diff = "E1"])
    \cup WithDirect([b EXCEPT !.diff = "ok", !.lhop = "E2"])

WithLn(b) ==
    { [b EXCEPT !.ln = "2"] }
    \cup WithDirect([b EXCEPT !.ln = "oo"])
    \cup WithDirect([b EXCEPT !.ln = "E2"])

\* <<limit of u*v, limit of ln(expr)>> for an expression (1 + u)**v whose
\* two limits are both finite.  When the base tends to 1 (u -> 0) the two
\* agree.  When it does not they need not: (1 + x)**(1/x) at oo has
\* u*v = 1 and ln(expr) -> 0, and (1 + x)**(1/log(1 + x)) at -1 has
\* u*v -> 0 and ln(expr) = 1.
ProdLnPairs(tipo) ==
    CASE tipo = "UM_POTENCIA_INFINITO" -> { <<"1", "1">> }
      [] tipo = "ZERO_POTENCIA_ZERO" -> { <<"0", "1">> }
      [] tipo = "INFINITO_POTENCIA_ZERO" -> { <<"1", "0">> }
      [] OTHER -> {}

\* What the engine may answer to the resolver of each tag; an answer the
\* resolver cannot come to ask for stays at its default.
ResSet(tipo) ==
    CASE tipo = "FINITO" -> { NoRes }
      [] tipo = "ZERO_SOBRE_ZERO" ->
            { [NoRes EXCEPT !.factorOut = "changed", !.simpSub = "2"] }
            \cup UNION { WithLhop([NoRes EXCEPT !.factorOut = f[1], !.simpSub = f[2], !.expandExc = x]) :
                           f \in { <<"exc", NA>>, <<"same", NA>>, <<"changed", "nan">>,
                                   <<"changed", "I">>, <<"changed", "E1">> },
                           x \in {"none", "E1"} }
      [] tipo = "INFINITO_SOBRE_INFINITO" ->
            UNION { WithLhop([NoRes EXCEPT !.degOut = g[1], !.dom = g[2]]) :
                      g \in { <<"exc", NA>>, <<"nonpos", NA>>, <<"pos", "1">>, <<"pos", "E1">> } }
      [] tipo = "INFINITO_MENOS_INFINITO" ->
            UNION { { [NoRes EXCEPT !.hasSqrt = h, !.togOut = "changed", !.tog = "0"] }
                    \cup WithDirect([NoRes EXCEPT !.hasSqrt = h, !.togOut = "changed", !.tog = "E1"])
                    \cup WithDirect([NoRes EXCEPT !.hasSqrt = h, !.togOut = "same"])
                    \cup WithDirect([NoRes EXCEPT !.hasSqrt = h, !.togOut = "exc"]) :
                      h \in BOOLEAN }
      [] tipo \in {"UM_POTENCIA_INFINITO", "ZERO_POTENCIA_ZERO", "INFINITO_POTENCIA_ZERO"} ->
            { [NoRes EXCEPT !.onePlus = TRUE, !.prod = v] : v \in {"1", "E1"} }
            \cup WithLn([NoRes EXCEPT !.onePlus = TRUE, !.prod = "oo"])
            \cup WithLn(NoRes)
            \cup { [NoRes EXCEPT !.onePlus = TRUE, !.prod = p[1], !.ln = p[2]] :
                     p \in ProdLnPairs(tipo) }
      [] OTHER -> WithDirect(NoRes)

Expr(c, r) == [cls |-> c, res |-> r, parseExc |-> "none"]

NoExpr == Expr(NoCls, NoRes)

\* A text parse_expr rejects.
BadExpr == [cls |-> NoCls, res |-> NoRes, parseExc |-> "E1"]

Tags == { classify_limit(c).tipo : c \in ClsSet }

\* Per tag, one classifier answer that is combined with every resolver
\* answer, and one resolver answer that is combined with every classifier
\* answer.
RichCls ==
    { CHOOSE c \in ClsSet : classify_limit(c).tipo = t /\ c.sub \in {"1", "zoo", "E1"} : t \in Tags }

RepRes(tipo) ==
    CASE tipo = "FINITO" -> NoRes
      [] tipo = "ZERO_SOBRE_ZERO" -> [NoRes EXCEPT !.factorOut = "same", !.diff = "ok", !.lhop = "1"]
      [] tipo = "INFINITO_SOBRE_INFINITO" ->
            [NoRes EXCEPT !.degOut = "pos", !.dom = "1", !.diff = "ok", !.lhop = "oo"]
      [] tipo = "INFINITO_MENOS_INFINITO" -> [NoRes EXCEPT !.togOut = "changed", !.tog = "0"]
      [] tipo \in {"UM_POTENCIA_INFINITO", "ZERO_POTENCIA_ZERO", "INFINITO_POTENCIA_ZERO"} ->
            [NoRes EXCEPT !.onePlus = TRUE, !.prod = "1"]
      [] OTHER -> [NoRes EXCEPT !.limL = "-oo", !.limR = "oo"]

RepExprs == { Expr(c, RepRes(classify_limit(c).tipo)) : c \in RichCls }

ExprSet ==
    { Expr(c, RepRes(classify_limit(c).tipo)) : c \in ClsSet }
    \cup UNION { { Expr(c, r) : r \in ResSet(classify_limit(c).tipo) } : c \in RichCls }

PointStrs == {"0", "2", "inf", "-inf"}

DirStrs == {"both", "+", "-"}

\* Spellings that the parsing and the normalisation map to the above, and
\* texts they reject or default.
MorePointStrs == PointStrs \cup {"INF", "("}

MoreDirStrs == DirStrs \cup {"Direita", "left", "acima"}

Query(e, point_str, dir) == [expr |-> e, point_str |-> point_str, direction |-> dir]

\* The queries the user may type.
Queries ==
    { Query(e, p, d) : e \in ExprSet, p \in PointStrs, d \in DirStrs }
    \cup { Query(e, p, d) : e \in RepExprs \cup {BadExpr}, p \in MorePointStrs, d \in MoreDirStrs }

(***************************************************************************)
(* The state: one query at a time, issued by the interactive loop          *)
(***************************************************************************)

VARIABLES
    pc,              \* "idle" (at the input prompts), "parsed", "classified",
                     \* "done" (solve_limit returned), "plot_prompt",
                     \* "continue_prompt", "ended" (main returned)
    query,           \* the arguments of the running solve_limit call
    expr,            \* solve_limit's local expr
    point,           \* solve_limit's local point
    direction,       \* solve_limit's local direction, normalised
    dir_symbol,      \* solve_limit's local dir_symbol
    classification,  \* the LimitClassification of the running call
    out,             \* what the resolver returned or raised
    invoked,         \* the resolvers the running call invoked, in order
    report,          \* the value solve_limit returned
    printed,         \* what main printed for the running query, in order
    prev             \* history: the previous query, its tag, value, engine
                     \* calls and report, when the user is about to repeat it

vars == <<pc, query, expr, point, direction, dir_symbol, classification,
          out, invoked, report, printed, prev>>

NoQuery == Query(NoExpr, NA, NA)

NoClassification == LimitClassification(NA, NA, NA, NA, NA)

NoOut == Ret(NA, <<>>, <<>>, "none")

NoPrev ==
    [set |-> FALSE, query |-> NoQuery, tipo |-> NA, resultado |-> NA,
     calls |-> <<>>, report |-> NoReport]

Init ==
    /\ pc = "idle"
    /\ query = NoQuery
    /\ expr = NoExpr
    /\ point = NA
    /\ direction = NA
    /\ dir_symbol = NA
    /\ classification = NoClassification
    /\ out = NoOut
    /\ invoked = <<>>
    /\ report = NoReport
    /\ printed = <<>>
    /\ prev = NoPrev

\* solve_limit, lines 514-545: parse the expression and the point, normalise
\* the direction.  A parse error ends the call with the error report.
Parse(q) ==
    /\ pc = "idle"
    /\ query' = q
    /\ LET e == q.expr
           point_str == q.point_str
           dir == q.direction
       IN
       IF Raised(e.parseExc) \/ Raised(parse_point(point_str))
       THEN /\ report' = solve_limit_except(IF Raised(e.parseExc) THEN e.parseExc
                                            ELSE parse_point(point_str))
            /\ pc' = "done"
            /\ UNCHANGED <<expr, point, direction, dir_symbol>>
       ELSE /\ expr' = e
            /\ point' = parse_point(point_str)
            /\ direction' = normalize_direction(dir).direction
            /\ dir_symbol' = normalize_direction(dir).dir_symbol
            /\ pc' = "parsed"
            /\ UNCHANGED report
    /\ UNCHANGED <<classification, out, invoked, printed, prev>>

\* solve_limit, lines 547-550: classify.
Classify ==
    /\ pc = "parsed"
    /\ classification' = classify_limit(expr.cls)
    /\ pc' = "classified"
    /\ UNCHANGED <<query, expr, point, direction, dir_symbol, out, invoked, report,
                   printed, prev>>

\* A dispatch that hands the requested direction to the 0 * oo branch.
RunResolver_passDirection(name) ==
    CASE name = "resolver_finito" -> resolver_finito(expr, point, classification)
      [] name = "resolver_numero_sobre_zero" ->
            resolver_numero_sobre_zero(expr, point, classification, direction)
      [] name = "resolver_zero_sobre_zero" -> resolver_zero_sobre_zero(expr, point)
      [] name = "resolver_infinito_sobre_infinito" -> resolver_infinito_sobre_infinito(expr, point)
      [] name = "resolver_infinito_menos_infinito" -> resolver_infinito_menos_infinito(expr, point)
      [] name = "resolver_zero_vezes_infinito" -> direct_dispatch(expr, point, direction)
      [] name = "resolver_exponencial_indeterminado" ->
            resolver_exponencial_indeterminado(expr, point, classification)
      [] OTHER -> direct_dispatch(expr, point, direction)

\* The resolver call of the selected branch.
RunResolver(name) ==
    CASE name = "resolver_finito" -> resolver_finito(expr, point, classification)
      [] name = "resolver_numero_sobre_zero" ->
            resolver_numero_sobre_zero(expr, point, classification, direction)
      [] name = "resolver_zero_sobre_zero" -> resolver_zero_sobre_zero(expr, point)
      [] name = "resolver_infinito_sobre_infinito" -> resolver_infinito_sobre_infinito(expr, point)
      [] name = "resolver_infinito_menos_infinito" -> resolver_infinito_menos_infinito(expr, point)
      [] name = "resolver_zero_vezes_infinito" -> resolver_zero_vezes_infinito(expr, point)
      [] name = "resolver_exponencial_indeterminado" ->
            resolver_exponencial_indeterminado(expr, point, classification)
      [] OTHER -> direct_dispatch(expr, point, direction)

\* solve_limit, lines 552-588 and the except clause: run the branch the tag
\* selects, then return the report.
Resolve(name) ==
    /\ pc = "classified"
    /\ Resolver(classification.tipo) = name
    /\ out' = RunResolver(name)
    /\ invoked' = Append(invoked, name)
    /\ report' = report_of(point, dir_symbol, classification, out')
    /\ pc' = "done"
    /\ UNCHANGED <<query, expr, point, direction, dir_symbol, classification,
                   printed, prev>>

ResolveFinito == Resolve("resolver_finito")
ResolveNumeroSobreZero == Resolve("resolver_numero_sobre_zero")
ResolveZeroSobreZero == Resolve("resolver_zero_sobre_zero")
ResolveInfinitoSobreInfinito == Resolve("resolver_infinito_sobre_infinito")
ResolveInfinitoMenosInfinito == Resolve("resolver_infinito_menos_infinito")
ResolveZeroVezesInfinito == Resolve("resolver_zero_vezes_infinito")
ResolveExponencial == Resolve("resolver_exponencial_indeterminado")
ResolveDirect == Resolve("limit")

(***************************************************************************)
(* main: the interactive loop around solve_limit                           *)
(***************************************************************************)

\* One thing main printed: the report of the query or a plotting message.
Line(kind, rep, msg) == [kind |-> kind, report |-> rep, msg |-> msg]

\* main, lines 748-749: print the report solve_limit returned, then ask
\* whether to plot.
PrintReport ==
    /\ pc = "done"
    /\ printed' = Append(printed, Line("report", report, NA))
    /\ pc' = "plot_prompt"
    /\ UNCHANGED <<query, expr, point, direction, dir_symbol, classification,
                   out, invoked, report, prev>>

\* Answers to a yes/no prompt: no, yes, the empty default, and EOF or an
\* interrupt at the prompt.
PromptAnswers == {"n", "s", "", "EOF"}

\* Outcomes of the plotting library inside plot_limit.
PlotExcs == {"none", "E1"}

\* main, lines 755-770: the plot block parses the texts of the query again
\* and asks the engine for the value to mark, with the direction as typed.
\* The result is an exception or the value.
plot_value(q) ==
    LET e == q.expr
        pt == parse_point(q.point_str)
    IN  IF Raised(e.parseExc) THEN e.parseExc
        ELSE IF Raised(pt) THEN pt
        ELSE IF q.direction = "both" THEN limit(e.res, "expr", pt, DefaultDir)
        ELSE limit(e.res, "expr", pt, q.direction)

\* What the plot block prints: its own warning when the preparation raises,
\* plot_limit's message when the plotting raises, the announcement of the
\* figure otherwise.
plot_line(q, plotExc) ==
    IF Raised(plot_value(q))
    THEN Line("Erro ao gerar grafico", NoReport, StrOf(plot_value(q)))
    ELSE IF Raised(plotExc)
    THEN Line("Nao foi possivel gerar o grafico", NoReport, StrOf(plotExc))
    ELSE Line("Exibindo grafico", NoReport, NA)

\* A plot block whose exceptions are not caught: a failure ends main.
AnswerPlotPrompt_uncaught(ans, plotExc) ==
    /\ pc = "plot_prompt"
    /\ IF ans \in {"n", "EOF"}
       THEN pc' = "continue_prompt" /\ UNCHANGED printed
       ELSE IF Raised(plot_value(query)) \/ Raised(plotExc)
       THEN pc' = "ended" /\ UNCHANGED printed
       ELSE pc' = "continue_prompt" /\ printed' = Append(printed, plot_line(query, plotExc))
    /\ UNCHANGED <<query, expr, point, direction, dir_symbol, classification,
                   out, invoked, report, prev>>

\* main, lines 751-777, with plot_limit (603-694): the answer to the plot
\* prompt.  No, EOF or an interrupt skip the plot; otherwise the plot block
\* runs and every exception in it is caught and reported as a message.
\* Either way the loop goes on to the continue prompt.
AnswerPlotPrompt(ans, plotExc) ==
    /\ pc = "plot_prompt"
    /\ printed' = IF ans \in {"n", "EOF"} THEN printed
                  ELSE Append(printed, plot_line(query, plotExc))
    /\ pc' = "continue_prompt"
    /\ UNCHANGED <<query, expr, point, direction, dir_symbol, classification,
                   out, invoked, report, prev>>

\* The places where the user can end the loop: the exit token or the empty
\* line at the expression prompt, EOF or an interrupt at an input prompt,
\* and no, EOF or an interrupt at the continue prompt.
InputExits == {"expr:sair", "expr:", "expr:EOF", "point:EOF", "direction:EOF"}

ContinueExits == {"continue:n", "continue:EOF"}

\* main, the break statements of lines 720-742 and 779-786: main returns and
\* nothing of the process is left.
ExitAtPrompt(how) ==
    /\ \/ pc = "idle" /\ how \in InputExits
       \/ pc = "continue_prompt" /\ how \in ContinueExits
    /\ pc' = "ended"
    /\ prev' = NoPrev
    /\ query' = NoQuery
    /\ expr' = NoExpr
    /\ point' = NA
    /\ direction' = NA
    /\ dir_symbol' = NA
    /\ classification' = NoClassification
    /\ out' = NoOut
    /\ invoked' = <<>>
    /\ report' = NoReport
    /\ printed' = <<>>

\* A return that leaves the last classification behind (a module-level cache).
NextQuery_keepClassification(again) ==
    /\ pc = "continue_prompt"
    /\ pc' = "idle"
    /\ prev' = IF again
               THEN [set |-> TRUE, query |-> query, tipo |-> classification.tipo,
                     resultado |-> out.resultado, calls |-> out.calls, report |-> report]
               ELSE NoPrev
    /\ query' = NoQuery
    /\ expr' = NoExpr
    /\ point' = NA
    /\ direction' = NA
    /\ dir_symbol' = NA
    /\ out' = NoOut
    /\ invoked' = <<>>
    /\ report' = NoReport
    /\ printed' = <<>>
    /\ UNCHANGED classification

\* main, lines 780-783 and 714: the user does not answer no at the continue
\* prompt and the loop is back at the input prompts; the locals of the
\* solve_limit call are gone.  `again` records that the user is about to
\* repeat the query.
NextQuery(again) ==
    /\ pc = "continue_prompt"
    /\ pc' = "idle"
    /\ prev' = IF again
               THEN [set |-> TRUE, query |-> query, tipo |-> classification.tipo,
                     resultado |-> out.resultado, calls |-> out.calls, report |-> report]
               ELSE NoPrev
    /\ query' = NoQuery
    /\ expr' = NoExpr
    /\ point' = NA
    /\ direction' = NA
    /\ dir_symbol' = NA
    /\ classification' = NoClassification
    /\ out' = NoOut
    /\ invoked' = <<>>
    /\ report' = NoReport
    /\ printed' = <<>>

Next ==
    \/ \E q \in (IF prev.set THEN {prev.query} ELSE Queries) : Parse(q)
    \/ Classify
    \/ ResolveFinito
    \/ ResolveNumeroSobreZero
    \/ ResolveZeroSobreZero
    \/ ResolveInfinitoSobreInfinito
    \/ ResolveInfinitoMenosInfinito
    \/ ResolveZeroVezesInfinito
    \/ ResolveExponencial
    \/ ResolveDirect
    \/ PrintReport
    \/ \E ans \in PromptAnswers, plotExc \in PlotExcs : AnswerPlotPrompt(ans, plotExc)
    \/ \E again \in BOOLEAN : NextQuery(again)
    \/ \E how \in InputExits \cup ContinueExits : ExitAtPrompt(how)

Spec == Init /\ [][Next]_vars

\* The same expression and point asked again with any direction.
Redirected(q) == { Query(q.expr, q.point_str, d) : d \in DirStrs }

\* The loop in which a repeated query keeps its expression and point and
\* is free in its direction, and in which the user declines the plot.
NextRedirect ==
    \/ \E q \in (IF prev.set THEN Redirected(prev.query) ELSE Queries) : Parse(q)
    \/ Classify
    \/ ResolveFinito
    \/ ResolveNumeroSobreZero
    \/ ResolveZeroSobreZero
    \/ ResolveInfinitoSobreInfinito
    \/ ResolveInfinitoMenosInfinito
    \/ ResolveZeroVezesInfinito
    \/ ResolveExponencial
    \/ ResolveDirect
    \/ PrintReport
    \/ AnswerPlotPrompt("n", "none")
    \/ \E again \in BOOLEAN : NextQuery(again)
    \/ \E how \in InputExits \cup ContinueExits : ExitAtPrompt(how)

SpecRedirect == Init /\ [][NextRedirect]_vars

(***************************************************************************)
(* Properties                                                              *)
(***************************************************************************)

Classified == pc \in {"classified", "done"} /\ classification # NoClassification

Resolved == pc = "done" /\ invoked # <<>>

\* C1: the classification tag alone selects the resolver, and every query
\* that reaches the dispatch invokes exactly one: each of the six named tags
\* its own resolver, the three power tags the exponential resolver, and
\* GENERICO and ERRO the direct evaluation by the limit engine.
Thm_C1 ==
    (pc = "done" /\ classification # NoClassification) =>
        /\ Len(invoked) = 1
        /\ <<classification.tipo, invoked[1]>> \in
              { <<"FINITO", "resolver_finito">>,
                <<"NUMERO_SOBRE_ZERO", "resolver_numero_sobre_zero">>,
                <<"ZERO_SOBRE_ZERO", "resolver_zero_sobre_zero">>,
                <<"INFINITO_SOBRE_INFINITO", "resolver_infinito_sobre_infinito">>,
                <<"INFINITO_MENOS_INFINITO", "resolver_infinito_menos_infinito">>,
                <<"ZERO_VEZES_INFINITO", "resolver_zero_vezes_infinito">>,
                <<"UM_POTENCIA_INFINITO", "resolver_exponencial_indeterminado">>,
                <<"ZERO_POTENCIA_ZERO", "resolver_exponencial_indeterminado">>,
                <<"INFINITO_POTENCIA_ZERO", "resolver_exponencial_indeterminado">>,
                <<"GENERICO", "limit">>,
                <<"ERRO", "limit">> }

Wit_C1 ==
    /\ pc = "done"
    /\ classification.tipo = "ZERO_POTENCIA_ZERO"
    /\ invoked = <<"resolver_exponencial_indeterminado">>

\* The decision list of the classifier: the tags in their fixed order and
\* the predicate of each on the evaluated expression.
TagOrder ==
    << "FINITO", "NUMERO_SOBRE_ZERO", "ZERO_SOBRE_ZERO", "INFINITO_SOBRE_INFINITO",
       "INFINITO_MENOS_INFINITO", "ZERO_VEZES_INFINITO", "UM_POTENCIA_INFINITO",
       "ZERO_POTENCIA_ZERO", "INFINITO_POTENCIA_ZERO", "GENERICO" >>

TagHolds(c, i) ==
    CASE i = 1 -> c.sub \in {"0", "1", "2"}
      [] i = 2 -> c.den = "0" /\ c.num \in {"1", "2", "I"}
      [] i = 3 -> c.num = "0" /\ c.den = "0"
      [] i = 4 -> c.num \in {"oo", "-oo"} /\ c.den \in {"oo", "-oo"}
      [] i = 5 -> c.kind = "Add" /\ (\E j \in 1..Len(c.args) : c.args[j] = "oo")
                                 /\ (\E j \in 1..Len(c.args) : c.args[j] = "-oo")
      [] i = 6 -> c.kind = "Mul" /\ (\E j \in 1..Len(c.args) : c.args[j] = "0")
                                 /\ (\E j \in 1..Len(c.args) : c.args[j] \in {"oo", "-oo"})
      [] i = 7 -> c.kind = "Pow" /\ c.args[1] = "1" /\ c.args[2] \in {"oo", "-oo"}
      [] i = 8 -> c.kind = "Pow" /\ c.args[1] = "0" /\ c.args[2] = "0"
      [] i = 9 -> c.kind = "Pow" /\ c.args[1] \in {"oo", "-oo"} /\ c.args[2] = "0"
      [] OTHER -> TRUE

\* C2: whenever classify_limit gets to evaluate its checks (it returns a tag
\* other than ERRO), the tag is that of the first check, in the fixed order,
\* whose predicate holds: FINITO whenever the substituted value is finite
\* and real, whatever later predicate also holds, and GENERICO only when no
\* earlier predicate holds.
Thm_C2 ==
    (Classified /\ classification.tipo # "ERRO") =>
        \E i \in 1..Len(TagOrder) :
            /\ classification.tipo = TagOrder[i]
            /\ TagHolds(expr.cls, i)
            /\ \A j \in 1..(i - 1) : ~TagHolds(expr.cls, j)

Wit_C2 ==
    /\ pc = "classified"
    /\ classification.tipo = "FINITO"
    /\ expr.cls.num = "0" /\ expr.cls.den = "0"

\* C3: for every expression whose substitution at the point is a finite
\* real value, whatever the numerator / denominator evaluation does, the tag
\* is FINITO and resolver_finito returns exactly that value, without any
\* engine call.
Cex_C3 ==
    (pc = "done" /\ classification # NoClassification
     /\ is_finite(expr.cls.sub) /\ is_real(expr.cls.sub)) =>
        /\ classification.tipo = "FINITO"
        /\ invoked = <<"resolver_finito">>
        /\ out.exc = "none"
        /\ out.resultado = expr.cls.sub
        /\ out.calls = <<>>

\* The one-sided limits the engine gives for the running query.
LeftLimit == limit(expr.res, "expr", point, "-")
RightLimit == limit(expr.res, "expr", point, "+")

\* C4: resolver_numero_sobre_zero asks the engine for the left and the right
\* limit, one call each; when both calls return it returns, without raising,
\* for "both" the common value if the two are equal and None otherwise, for
\* "+" the right limit and for "-" the left limit, whatever the other side.
Thm_C4 ==
    (pc = "done" /\ invoked = <<"resolver_numero_sobre_zero">>) =>
        IF Raised(LeftLimit) \/ Raised(RightLimit)
        THEN Raised(out.exc)
        ELSE /\ out.exc = "none"
             /\ out.calls = <<Call("expr", "-"), Call("expr", "+")>>
             /\ direction = "both" /\ LeftLimit = RightLimit => out.resultado = LeftLimit
             /\ direction = "both" /\ LeftLimit # RightLimit => out.resultado = None
             /\ direction = "+" => out.resultado = RightLimit
             /\ direction = "-" => out.resultado = LeftLimit

Wit_C4 ==
    /\ pc = "done"
    /\ invoked = <<"resolver_numero_sobre_zero">>
    /\ direction = "both"
    /\ LeftLimit = "-oo" /\ RightLimit = "oo"
    /\ out.exc = "none" /\ out.resultado = None

\* C5: for GENERICO, solve_limit calls the limit engine on the original
\* expression with a direction the engine accepts: the two-sided "+-" when
\* the normalised direction is "both", the requested side otherwise.
Cex_C5 ==
    (pc = "done" /\ classification.tipo = "GENERICO") =>
        /\ Len(out.calls) = 1
        /\ out.calls[1].form = "expr"
        /\ out.calls[1].dir \in EngineDirs
        /\ out.calls[1].dir = (IF direction = "both" THEN "+-" ELSE direction)

\* C6: a resolver's terminal direct evaluation calls the engine with the same
\* arguments as the GENERICO dispatch does for the same expression, point
\* and direction, and ends the same way with the same value.
Cex_C6 ==
    (Resolved /\ invoked[1] # "limit" /\ (out.via = "direto" \/ out.at = "direct")) =>
        LET g == direct_dispatch(expr, point, direction)
        IN  /\ out.calls[Len(out.calls)] = g.calls[1]
            /\ out.exc = g.exc
            /\ out.resultado = g.resultado

\* C7: an exception leaves a resolver only from its final direct evaluation
\* of the original expression (the lateral limits of the number-over-zero
\* resolver are its direct evaluation); a step of an attempt that raises
\* makes the resolver go on to its next strategy.
Cex_C7 ==
    (Resolved /\ invoked[1] # "limit" /\ Raised(out.exc)) =>
        out.at \in {"direct", "lateral"}

\* The exception, if any, that a step of the running solve_limit call raised
\* and that was not handled before the outermost try.
QueryExc ==
    IF Raised(query.expr.parseExc) THEN query.expr.parseExc
    ELSE IF Raised(parse_point(query.point_str)) THEN parse_point(query.point_str)
    ELSE out.exc

\* C8: solve_limit never raises: whatever the inputs, it returns a report,
\* the normal one when no step raised and otherwise the error report that
\* carries the message of the exception.
Thm_C8 ==
    pc = "done" =>
        IF Raised(QueryExc)
        THEN report.kind = "erro" /\ report.msg = StrOf(QueryExc)
        ELSE report.kind = "normal"

Wit_C8 ==
    /\ pc = "done"
    /\ invoked = <<"resolver_exponencial_indeterminado">>
    /\ out.exc = "E1"
    /\ report.kind = "erro" /\ report.msg = "msg1"

\* The exception classify_limit caught.  (The structure of the expression
\* is evaluated only when no earlier check matched.)
ClassifyExc(c) ==
    IF Raised(c.sub) THEN c.sub
    ELSE IF Raised(c.fractionExc) THEN c.fractionExc
    ELSE IF Raised(c.numdenExc) THEN c.numdenExc
    ELSE c.argsExc

\* C9 as stated: an exception during classify_limit gives the tag ERRO with
\* no substituted value and a note equal to the exception message, and the
\* query ends with the normal report showing that classification.
Cex_C9 ==
    (Classified /\ Raised(ClassifyExc(expr.cls))) =>
        /\ classification.tipo = "ERRO"
        /\ classification.valor_substituicao = None
        /\ classification.observacoes = StrOf(ClassifyExc(expr.cls))
        /\ pc = "done" => report.kind = "normal" /\ report.tipo = "ERRO"

\* C9, amended: an exception during classify_limit gives the tag ERRO with
\* no substituted value and the note "Erro na classificacao: " followed by
\* the exception message; classify_limit does not raise and the query goes
\* on to the direct evaluation.  When that evaluation returns, the normal
\* report shows the ERRO tag and the note; when it raises, the error report
\* of that later exception is returned instead.
Thm_C9 ==
    (Classified /\ Raised(ClassifyExc(expr.cls))) =>
        /\ classification.tipo = "ERRO"
        /\ classification.valor_substituicao = None
        /\ classification.observacoes = "Erro na classificacao: " \o StrOf(ClassifyExc(expr.cls))
        /\ pc = "done" =>
              /\ invoked = <<"limit">>
              /\ IF Raised(out.exc)
                 THEN report.kind = "erro" /\ report.msg = StrOf(out.exc)
                 ELSE /\ report.kind = "normal"
                      /\ report.tipo = "ERRO"
                      /\ report.observacoes = classification.observacoes

Wit_C9 ==
    /\ pc = "done"
    /\ Raised(expr.cls.numdenExc)
    /\ classification.tipo = "ERRO"
    /\ report.kind = "normal"

Thm_C11 ==
    /\ [][ /\ pc' = "ended" => pc \in {"idle", "continue_prompt"}
           /\ pc = "done" =>
                 /\ pc' = "plot_prompt"
                 /\ report' = report
                 /\ printed' = <<Line("report", report, NA)>>
           /\ pc = "plot_prompt" =>
                 /\ pc' = "continue_prompt"
                 /\ report' = report /\ out' = out /\ invoked' = invoked
                 /\ printed'[1] = Line("report", report, NA)
                 /\ \A i \in 2..Len(printed') : printed'[i].kind # "report"
           /\ pc = "continue_prompt" => pc' \in {"idle", "ended"}
         ]_vars
    /\ [](pc = "done" => ENABLED PrintReport)
    /\ [](pc = "plot_prompt" => \A a \in PromptAnswers, x \in PlotExcs : ENABLED AnswerPlotPrompt(a, x))
    /\ [](pc = "continue_prompt" => ENABLED NextQuery(FALSE))

\* A query that failed with an error report was followed by a next query,
\* which failed again, and whose plot failed too; the loop is at the
\* continue prompt with the error report printed once.
Wit_C11 ==
    /\ pc = "continue_prompt"
    /\ prev.set /\ prev.report.kind = "erro"
    /\ report.kind = "erro"
    /\ Len(printed) = 2
    /\ printed[1] = Line("report", report, NA)
    /\ printed[2].kind = "Nao foi possivel gerar o grafico"

\* The trace block `b` is part of the explanation `t`.
HasBlock(t, b) == \E i \in 1..Len(t) : t[i] = b

\* Attempt 1 of the 0/0 resolver succeeds: the cancelled form differs and
\* its substitution at the point is finite and real.
FactorWins(r) == r.factorOut = "changed" /\ r.simpSub \in {"0", "1", "2", "E", "exp(2)"}

\* The L'Hopital attempt raised: a derivative, or the engine's limit of the
\* quotient of the derivatives.
LhopRaised(r) == Raised(r.diff) \/ Raised(r.lhop)

\* C12: resolver_zero_sobre_zero makes ordered attempts and the first
\* success wins: (1) factor / cancel returns the substituted value at once
\* when the cancelled form differs and the value is finite and real; (2)
\* otherwise L'Hopital returns the engine's limit of numerator' /
\* denominator'; (3) the direct limit of the original expression, labelled
\* as a direct computation, is reached only if every prior attempt failed
\* (taken in its weakest sense: factor / cancel gave no result, by an error
\* or not, and L'Hopital raised an error).  The expansion at the point zero
\* only adds a trace block: the attempt that gives the result and the value
\* are those of the same resolver without the expansion (at a non-zero
\* point, with the same engine answers).
Cex_C12 ==
    (pc = "done" /\ invoked = <<"resolver_zero_sobre_zero">>) =>
        LET r == expr.res
            noExpand == resolver_zero_sobre_zero(expr, "2")
        IN  /\ FactorWins(r) =>
                  /\ out.via = "fatoracao"
                  /\ out.resultado = r.simpSub
                  /\ out.calls = <<>>
            /\ (~FactorWins(r) /\ ~LhopRaised(r)) =>
                  /\ out.via = "lhopital"
                  /\ out.resultado = r.lhop
            /\ (out.via = "direto" \/ out.at = "direct") =>
                  /\ ~FactorWins(r) /\ LhopRaised(r)
                  /\ out.via = "direto" => HasBlock(out.explicacao, "RESULTADO (calculo direto)")
            /\ out.exc = noExpand.exc
            /\ out.via = noExpand.via
            /\ out.resultado = noExpand.resultado

\* The dominant-term path of the oo/oo resolver: applicable at an infinite
\* point when the degree of the denominator is positive; it produces a
\* result when it is applicable and nothing in it raises.
DomApplicable(r, pt) == pt \in {"oo", "-oo"} /\ r.degOut = "pos"

DomResult(r, pt) == DomApplicable(r, pt) /\ ~Raised(r.dom)

\* The L'Hopital attempt was made: its block is in the trace, or the
\* resolver went past it to a direct evaluation that raised.
LhopAttempted(o) == HasBlock(o.explicacao, "REGRA DE L'HOPITAL") \/ o.at = "direct"

\* C13: resolver_infinito_sobre_infinito tries the dominant-term method
\* first, and only at an infinite point with a positive degree of the
\* denominator; a result of that method is returned without L'Hopital being
\* attempted.  L'Hopital is attempted exactly when the dominant-term path is
\* inapplicable or failed, and its limit is then the result; the direct
\* limit of the original expression is evaluated only when neither method
\* gave a result, L'Hopital having raised.
Thm_C13 ==
    (pc = "done" /\ invoked = <<"resolver_infinito_sobre_infinito">>) =>
        LET r == expr.res
        IN  /\ out.via = "dominante" => DomApplicable(r, point)
            /\ DomResult(r, point) =>
                  /\ out.via = "dominante"
                  /\ out.resultado = r.dom
                  /\ out.calls = <<Call("dom", DefaultDir)>>
            /\ LhopAttempted(out) <=> ~DomResult(r, point)
            /\ (~DomResult(r, point) /\ ~LhopRaised(r)) =>
                  /\ out.via = "lhopital"
                  /\ out.resultado = r.lhop
            /\ (out.via = "direto" \/ out.at = "direct") <=>
                  (~DomResult(r, point) /\ LhopRaised(r))
            /\ \A i, j \in 1..Len(out.explicacao) :
                  (out.explicacao[i] = "REGRA DE L'HOPITAL"
                   /\ out.explicacao[j] = "DIVIDINDO PELA MAIOR POTENCIA") => j < i

\* At an infinite point the dominant-term method was applicable and raised;
\* L'Hopital gave the result.
Wit_C13 ==
    /\ pc = "done"
    /\ invoked = <<"resolver_infinito_sobre_infinito">>
    /\ DomApplicable(expr.res, point) /\ Raised(expr.res.dom)
    /\ out.via = "lhopital"
    /\ out.calls = <<Call("dom", DefaultDir), Call("lhop", DefaultDir)>>

\* The expression has the shape strategy 1 of the exponential resolver
\* looks for: a power whose base is a two-term sum containing 1.
OnePlusShape(e) == e.cls.kind = "Pow" /\ e.res.onePlus

\* C14: resolver_exponencial_indeterminado tries in order: (1) only for the
\* shape (1 + u)**v, the limit of u*v, and when it is finite the result is
\* exp of it, without the logarithm method being run; (2) otherwise, or when
\* that limit is not finite, the limit of the simplified ln(expr), and when
\* it is finite the result is exp of it; (3) when both fail, the direct
\* limit of the original expression.  Whenever both the product limit and
\* the logarithm limit are finite, the two results are equal.
Cex_C14 ==
    (pc = "done" /\ invoked = <<"resolver_exponencial_indeterminado">>) =>
        LET r == expr.res
            prodFinite == OnePlusShape(expr) /\ is_finite(r.prod)
            lnFinite == is_finite(r.ln)
        IN  /\ (\E i \in 1..Len(out.calls) : out.calls[i].form = "prod") => OnePlusShape(expr)
            /\ prodFinite =>
                  /\ out.via = "fundamental"
                  /\ out.resultado = exp(r.prod)
                  /\ out.calls = <<Call("prod", DefaultDir)>>
            /\ ~prodFinite =>
                  /\ \E i \in 1..Len(out.calls) : out.calls[i].form = "ln"
                  /\ lnFinite => out.via = "logaritmo" /\ out.resultado = exp(r.ln)
                  /\ ~lnFinite => (out.via = "direto" \/ out.at = "direct")
            /\ (prodFinite /\ lnFinite) => exp(r.prod) = exp(r.ln)

\* The tags whose branch of solve_limit receives the requested direction.
DirectionTags == {"NUMERO_SOBRE_ZERO", "GENERICO", "ERRO"}

\* A report without its limit-notation line.
WithoutLimite(rep) == [rep EXCEPT !.limite = <<>>]

\* C15: for every tag other than NUMERO_SOBRE_ZERO, GENERICO and ERRO, two
\* runs of solve_limit on the same expression and point with whatever
\* directions give the same tag, make the same engine calls, none of which
\* carries the requested direction (each is made with the direction
\* omitted), and end with the same final value; the reports differ at most
\* in the limit-notation line, which shows the direction of each run.
Thm_C15 ==
    (pc = "done" /\ prev.set /\ classification # NoClassification
     /\ classification.tipo \notin DirectionTags) =>
        /\ query.expr = prev.query.expr /\ query.point_str = prev.query.point_str
        /\ classification.tipo = prev.tipo
        /\ out.calls = prev.calls
        /\ \A i \in 1..Len(out.calls) : out.calls[i].dir = DefaultDir
        /\ out.resultado = prev.resultado
        /\ WithoutLimite(report) = WithoutLimite(prev.report)
        /\ report.kind = "normal" => report.limite = <<point, dir_symbol>>

\* A 0 * oo expression whose one-sided limits differ, asked from the right
\* and then from the left: the second run ends with the value of the first.
Wit_C15 ==
    /\ pc = "done"
    /\ prev.set
    /\ classification.tipo = "ZERO_VEZES_INFINITO"
    /\ prev.query.direction = "+" /\ direction = "-"
    /\ expr.res.limL = "-oo" /\ expr.res.limR = "oo"
    /\ out.resultado = "oo" /\ prev.resultado = "oo"
    /\ report.limite # prev.report.limite

====
